---------------------------- MODULE Spec2Model ----------------------------
(***************************************************************************)
(* Model of pulse.py: a linear pipeline that loads a survey table, infers  *)
(* column roles, aggregates the question scores, builds the charts,        *)
(* extracts the comments, renders the HTML and writes it.                  *)
(*                                                                         *)
(* Numbers are kept exactly as integers in units of 1/Scale (Scale = 2, so *)
(* 5 stands for 2.5).  A mean is the fraction num/den with den = 0 for the *)
(* missing value NaN.  Text is a sequence of one-character strings.        *)
(***************************************************************************)
EXTENDS Integers, Sequences, FiniteSets, TLC

\* ----- bounds of the explored inputs -----
MaxQ == 3          \* question columns of the score tables
MaxRows == 3       \* respondents of the score tables
MaxCells == 4      \* question cells (questions x respondents) of the score tables
MaxCols == 3       \* columns of the tables that vary the column names
MaxComments == 2   \* rows of the tables that vary the column names

\* ----- number representation -----
Scale == 2

\* ----- pulse.py configuration colours -----
GOOD == "#1a7f37"
NEUTRAL == "#8a8f98"
BAD == "#d1242f"

\* ----- cells -----
NA == [k |-> "na", v |-> 0, s |-> <<>>]            \* NaN / NaT / empty field
Inf == [k |-> "inf", v |-> 0, s |-> <<>>]          \* float("inf")
Num(x) == [k |-> "num", v |-> x, s |-> <<>>]       \* finite float x/Scale
Str(t) == [k |-> "str", v |-> 0, s |-> t]          \* text
Dt(iso) == [k |-> "dt", v |-> 0, s |-> iso]        \* Timestamp, kept as its ISO text

DateText == <<"1", "/", "2">>                      \* a field to_datetime can parse
IsoText == <<"0", "1", "-", "0", "2">>             \* the same day as a Timestamp prints

\* No retained output before the run / a torn write
OldFile == [kind |-> "old"]
PartialFile == [kind |-> "partial"]

NoneCol == ""      \* Python None for comment_col (both are falsy in `if comment_col:`)

Range(f) == {f[i] : i \in DOMAIN f}

RECURSIVE SumSeq(_)
SumSeq(q) == IF q = <<>> THEN 0 ELSE Head(q) + SumSeq(Tail(q))

RECURSIVE Flatten(_)
Flatten(qq) == IF qq = <<>> THEN <<>> ELSE Head(qq) \o Flatten(Tail(qq))

RECURSIVE SelectIdx(_, _, _)
\* the indices i of 1..n with P[i], in increasing order (list comprehension order)
SelectIdx(P, i, n) ==
    IF i > n THEN <<>>
    ELSE (IF P[i] THEN <<i>> ELSE <<>>) \o SelectIdx(P, i + 1, n)

\* ----- column names: the two substring tests of the loader -----
TsNames == {"Timestamp", "Timestamp (optional)"}
CommentNames == {"Comments", "Timestamp (optional)"}
StartsWithTimestamp(c) == c \in TsNames
HasCommentWord(c) == c \in CommentNames

\* next((c for c in cols if test(c)), default), the test being membership in names
FirstOr(cols, names, default) ==
    LET hits == {i \in 1..Len(cols) : cols[i] \in names}
    IN IF hits = {} THEN default
       ELSE cols[CHOOSE i \in hits : \A j \in hits : i <= j]

timestamp_col_of(cols) == FirstOr(cols, {c \in Range(cols) : StartsWithTimestamp(c)}, cols[1])
comment_col_of(cols) == FirstOr(cols, {c \in Range(cols) : HasCommentWord(c)}, NoneCol)
question_cols_of(cols) ==
    LET keep == [i \in 1..Len(cols) |->
                    cols[i] \notin {timestamp_col_of(cols), comment_col_of(cols)}]
        idx == SelectIdx(keep, 1, Len(cols))
    IN [j \in 1..Len(idx) |-> cols[idx[j]]]

Pos(cols, c) == CHOOSE i \in 1..Len(cols) : cols[i] = c

\* ----- coercions -----
\* pd.to_datetime(errors="coerce"): parsable text becomes a Timestamp, the rest NaT
to_datetime(cell) ==
    IF cell.k = "dt" THEN cell
    ELSE IF cell.k = "str" /\ cell.s = DateText THEN Dt(IsoText)
    ELSE NA

\* pd.to_numeric(errors="coerce"): numbers stay, everything else becomes NaN
to_numeric(cell) ==
    IF cell.k \in {"num", "inf"} THEN cell ELSE NA

\* astype(str) on the comment column (a float prints as a non-blank numeral)
astype_str(cell) ==
    IF cell.k = "str" THEN cell.s
    ELSE IF cell.k = "dt" THEN cell.s
    ELSE <<"#">>

RECURSIVE lstrip(_)
lstrip(t) == IF t # <<>> /\ Head(t) = " " THEN lstrip(Tail(t)) ELSE t
RECURSIVE rstrip(_)
rstrip(t) == IF t # <<>> /\ t[Len(t)] = " " THEN rstrip(SubSeq(t, 1, Len(t) - 1)) ELSE t
strip(t) == rstrip(lstrip(t))

\* ----- means as exact fractions -----
NaNMean == [num |-> 0, den |-> 0]
IsNaN(m) == m.den = 0
MeanGE(a, b) == a.num * b.den >= b.num * a.den
MeanEQ(a, b) == IF IsNaN(a) \/ IsNaN(b) THEN IsNaN(a) /\ IsNaN(b)
                ELSE a.num * b.den = b.num * a.den

\* Series.mean(): NaN skipped; NaN when nothing is left
mean_of(cells) ==
    LET vals == SelectSeq(cells, LAMBDA x : x.k = "num")
    IN IF vals = <<>> THEN NaNMean
       ELSE [num |-> SumSeq([i \in 1..Len(vals) |-> vals[i].v]),
             den |-> Scale * Len(vals)]


\* DataFrame.sort_values("Mean", ascending=False): means in descending order with
\* the NaN means last.  The default kind is quicksort, which pandas documents as
\* not stable, so rows with equal means may come out in any order.
MaxOf(a, b) == IF a > b THEN a ELSE b
PermTable ==
    [k \in 0..MaxOf(MaxOf(MaxQ, MaxRows), MaxOf(MaxCols, MaxComments)) |->
        {p \in [1..k -> 1..k] : \A i, j \in 1..k : i # j => p[i] # p[j]}]
Perms(k) == PermTable[k]
SortOrdersAscending(means) ==
    {p \in Perms(Len(means)) :
        \A i, j \in 1..Len(means) : i < j =>
            /\ IsNaN(means[p[i]]) => IsNaN(means[p[j]])
            /\ (IsNaN(means[p[i]]) /\ IsNaN(means[p[j]])) => p[i] < p[j]
            /\ ~IsNaN(means[p[j]]) => MeanGE(means[p[j]], means[p[i]])}
SortOrders(means) ==
    {p \in Perms(Len(means)) :
        \A i, j \in 1..Len(means) : i < j =>
            /\ IsNaN(means[p[i]]) => IsNaN(means[p[j]])
            /\ (IsNaN(means[p[i]]) /\ IsNaN(means[p[j]])) => p[i] < p[j]
            /\ ~IsNaN(means[p[j]]) => MeanGE(means[p[i]], means[p[j]])}

\* Series.round(): numpy rounds halves to the even neighbour
RoundHalfUp(v) == (2 * v + Scale) \div (2 * Scale)
Round(v) ==
    LET q == v \div Scale
        r == v % Scale
    IN IF 2 * r < Scale THEN q
       ELSE IF 2 * r > Scale THEN q + 1
       ELSE IF q % 2 = 0 THEN q ELSE q + 1

Buckets == 1..5

\* ----- state -----
VARIABLES
    pc,             \* the statement group about to run
    failed,         \* the stage whose exception ended the run, or "none"
    input,          \* the file INPUT_CSV: readable flag, header, rows as read_csv types them
    out,            \* the file OUTPUT_HTML
    df, timestamp_col, comment_col, question_cols,
    n, stacked, overall_mean, summary,
    best_q, best_mean, worst_q, worst_mean,
    dist_counts, total_answers,
    comments_html,
    overall_color, best_color, worst_color,
    charts, pie,
    html

loadVars == <<df, timestamp_col, comment_col, question_cols>>
aggVars == <<n, stacked, overall_mean, summary, best_q, best_mean, worst_q,
             worst_mean, dist_counts, total_answers>>
colorVars == <<overall_color, best_color, worst_color>>
chartVars == <<charts, pie>>
vars == <<pc, failed, input, out, loadVars, aggVars, comments_html, colorVars,
          chartVars, html>>

\* ----- the explored input files -----
QNames == <<"Q1", "Q2", "Q3", "Q4", "Q5", "Q6">>
NameText == <<"x">>
\* a blank field, a word, 0.5, 1, 2.5, 5, 6 and inf
ScoreCells == {NA, Str(NameText), Num(1), Num(Scale), Num(5), Num(5 * Scale), Num(6 * Scale), Inf}
TextCells == {NA, Str(<<" ", " ">>), Str(<<" ", "a", " ">>), Str(<<"b">>), Str(DateText)}
RoleNames == {"Timestamp", "Comments", "Timestamp (optional)", "Q1"}

Min(a, b) == IF a < b THEN a ELSE b

\* A timestamp column followed by k question columns whose cells vary.
ScoreTable(k, cells) ==
    [readable |-> TRUE,
     cols |-> <<"Timestamp">> \o SubSeq(QNames, 1, k),
     rows |-> [r \in 1..Len(cells) |-> <<Str(DateText)>> \o cells[r]]]

\* What a column holds in the tables that vary the column names.
DefaultCell(c) ==
    IF c \in TsNames THEN Str(DateText)
    ELSE IF c \in CommentNames THEN Str(<<"b">>)
    ELSE Num(5 * Scale)

Headers ==
    UNION {{h \in [1..len -> RoleNames] : \A i, j \in 1..len : i # j => h[i] # h[j]} :
            len \in 1..Min(MaxCols, Cardinality(RoleNames))}

\* Any header of distinct names; the cells of the first comment-named column vary.
RoleTable(h, cm) ==
    [readable |-> TRUE,
     cols |-> h,
     rows |-> [r \in 1..Len(cm) |->
                 [c \in 1..Len(h) |->
                     IF h[c] = comment_col_of(h) THEN cm[r] ELSE DefaultCell(h[c])]]]

Unreadable == [readable |-> FALSE, cols |-> <<>>, rows |-> <<>>]

NoHtml == [present |-> FALSE, count |-> 0, blocks |-> <<>>]

Init ==
    /\ pc = "load"
    /\ failed = "none"
    /\ \/ \E k \in 0..Min(MaxQ, Len(QNames)), nr \in 0..MaxRows :
            /\ k * nr <= MaxCells
            /\ \E cells \in [1..nr -> [1..k -> ScoreCells]] : input = ScoreTable(k, cells)
       \/ \E h \in Headers, nr \in 0..MaxComments :
            \E cm \in [1..nr -> TextCells] : input = RoleTable(h, cm)
       \/ input = Unreadable
    /\ out = OldFile
    /\ df = <<>>
    /\ timestamp_col = ""
    /\ comment_col = NoneCol
    /\ question_cols = <<>>
    /\ n = 0
    /\ stacked = <<>>
    /\ overall_mean = NaNMean
    /\ summary = <<>>
    /\ best_q = "-"
    /\ best_mean = NaNMean
    /\ worst_q = "-"
    /\ worst_mean = NaNMean
    /\ dist_counts = [k \in Buckets |-> 0]
    /\ total_answers = 0
    /\ comments_html = NoHtml
    /\ overall_color = NEUTRAL
    /\ best_color = NEUTRAL
    /\ worst_color = NEUTRAL
    /\ charts = <<>>
    /\ pie = <<>>
    /\ html = <<>>

\* ----- LOAD (pulse.py 46-55) -----
\* pd.read_csv raises on an unreadable or malformed file
LoadFailTruncating ==
    /\ pc = "load"
    /\ ~input.readable
    /\ out' = PartialFile
    /\ pc' = "aborted"
    /\ failed' = "load"
    /\ UNCHANGED <<input, loadVars, aggVars, comments_html, colorVars, chartVars, html>>
LoadFail ==
    /\ pc = "load"
    /\ ~input.readable
    /\ pc' = "aborted"
    /\ failed' = "load"
    /\ UNCHANGED <<input, out, loadVars, aggVars, comments_html, colorVars, chartVars, html>>

\* the frame after the timestamp column went through to_datetime and every
\* question column through to_numeric; a comment column is left as read
coerce(cols, rows) ==
    LET ts == timestamp_col_of(cols)
        qs == Range(question_cols_of(cols))
    IN [r \in 1..Len(rows) |->
          [c \in 1..Len(cols) |->
              IF cols[c] = ts THEN to_datetime(rows[r][c])
              ELSE IF cols[c] \in qs THEN to_numeric(rows[r][c])
              ELSE rows[r][c]]]

Load ==
    /\ pc = "load"
    /\ input.readable
    /\ timestamp_col' = timestamp_col_of(input.cols)
    /\ comment_col' = comment_col_of(input.cols)
    /\ question_cols' = question_cols_of(input.cols)
    /\ df' = coerce(input.cols, input.rows)
    /\ pc' = "aggregate"
    /\ UNCHANGED <<failed, input, out, aggVars, comments_html, colorVars, chartVars, html>>

\* df[c] as a sequence of cells
Column(frame, cols, c) == [r \in 1..Len(frame) |-> frame[r][Pos(cols, c)]]

\* ----- SUMMARY STATS (pulse.py 57-90) -----
\* df[question_cols].stack(dropna=True): row by row, the non-missing question cells
stack(frame, cols, qcols) ==
    Flatten([r \in 1..Len(frame) |->
                SelectSeq([j \in 1..Len(qcols) |-> frame[r][Pos(cols, qcols[j])]],
                          LAMBDA x : x.k # "na")])

\* stacked.round().astype(int).value_counts().reindex([1..5], fill_value=0)
dist_counts_of(st) ==
    [k \in Buckets |-> Cardinality({i \in 1..Len(st) : Round(st[i].v) = k})]

\* astype(int) raises IntCastingNaNError on a non-finite value
AggregateFail ==
    /\ pc = "aggregate"
    /\ \E i \in 1..Len(stack(df, input.cols, question_cols)) :
            stack(df, input.cols, question_cols)[i].k = "inf"
    /\ pc' = "aborted"
    /\ failed' = "aggregate"
    /\ UNCHANGED <<input, out, loadVars, aggVars, comments_html, colorVars, chartVars, html>>

RECURSIVE ProdSeq(_)
ProdSeq(q) == IF q = <<>> THEN 1 ELSE Head(q) * ProdSeq(Tail(q))

\* the mean of the defined per-question means
mean_of_means(frame, cols, qcols) ==
    LET all == [j \in 1..Len(qcols) |-> mean_of(Column(frame, cols, qcols[j]))]
        ms == SelectSeq(all, LAMBDA m : ~IsNaN(m))
        dens == [j \in 1..Len(ms) |-> ms[j].den]
    IN IF ms = <<>> THEN NaNMean
       ELSE [num |-> SumSeq([j \in 1..Len(ms) |-> ms[j].num * (ProdSeq(dens) \div ms[j].den)]),
             den |-> Len(ms) * ProdSeq(dens)]

\* float(stacked.mean()) if len(stacked) else float("nan")
overall_mean_of(frame, cols, qcols) ==
    LET st == stack(frame, cols, qcols)
    IN IF Len(st) > 0 THEN mean_of(st) ELSE NaNMean

Aggregate ==
    /\ pc = "aggregate"
    /\ LET st == stack(df, input.cols, question_cols)
           means == [j \in 1..Len(question_cols) |->
                        mean_of(Column(df, input.cols, question_cols[j]))]
       IN /\ \A i \in 1..Len(st) : st[i].k # "inf"
          /\ n' = Len(df)
          /\ stacked' = st
          /\ overall_mean' = overall_mean_of(df, input.cols, question_cols)
          /\ \E p \in SortOrders(means) :
                LET sm == [i \in 1..Len(means) |->
                              [Question |-> question_cols[p[i]], Mean |-> means[p[i]]]]
                IN /\ summary' = sm
                   /\ best_q' = IF Len(sm) > 0 THEN sm[1].Question ELSE "-"
                   /\ best_mean' = IF Len(sm) > 0 THEN sm[1].Mean ELSE NaNMean
                   /\ worst_q' = IF Len(sm) > 0 THEN sm[Len(sm)].Question ELSE "-"
                   /\ worst_mean' = IF Len(sm) > 0 THEN sm[Len(sm)].Mean ELSE NaNMean
          /\ dist_counts' = dist_counts_of(st)
          /\ total_answers' = SumSeq([k \in Buckets |-> dist_counts_of(st)[k]])
    /\ pc' = "comments"
    /\ UNCHANGED <<failed, input, out, loadVars, comments_html, colorVars, chartVars, html>>

\* ----- COMMENTS (pulse.py 203-219) -----
comments_of(frame, cols, c) ==
    LET kept == SelectSeq(Column(frame, cols, c), LAMBDA x : x.k # "na")
        text == [i \in 1..Len(kept) |-> strip(astype_str(kept[i]))]
    IN SelectSeq(text, LAMBDA t : t # <<>>)

Comments ==
    /\ pc = "comments"
    /\ comments_html' =
          IF comment_col # NoneCol /\ Len(comments_of(df, input.cols, comment_col)) > 0
          THEN [present |-> TRUE,
                count |-> Len(comments_of(df, input.cols, comment_col)),
                blocks |-> comments_of(df, input.cols, comment_col)]
          ELSE NoHtml
    /\ pc' = "colors"
    /\ UNCHANGED <<failed, input, out, loadVars, aggVars, colorVars, chartVars, html>>

\* ----- KPI COLORS (pulse.py 30-43, 260-262) -----
score_color_strict(score) ==
    IF IsNaN(score) THEN NEUTRAL
    ELSE IF score.num > 4 * score.den THEN GOOD
    ELSE IF score.num > 3 * score.den THEN NEUTRAL
    ELSE BAD
score_color(score) ==
    IF IsNaN(score) THEN NEUTRAL
    ELSE IF score.num >= 4 * score.den THEN GOOD
    ELSE IF score.num >= 3 * score.den THEN NEUTRAL
    ELSE BAD

Colors ==
    /\ pc = "colors"
    /\ overall_color' = score_color(overall_mean)
    /\ best_color' = score_color(best_mean)
    /\ worst_color' = score_color(worst_mean)
    /\ pc' = "charts"
    /\ UNCHANGED <<failed, input, out, loadVars, aggVars, comments_html, chartVars, html>>

\* ----- CHARTS (pulse.py 115-199, 265-269) -----
\* df[col].value_counts(dropna=False).reindex([1..5], fill_value=0): the raw
\* values are the keys, so only a cell equal to k lands in bucket k
dist_chart(frame, cols, c) ==
    [k \in Buckets |->
        Cardinality({r \in 1..Len(frame) :
            LET x == frame[r][Pos(cols, c)] IN x.k = "num" /\ x.v = k * Scale})]

pie_chart(total, counts) ==
    IF total = 0 THEN [names |-> <<"No data">>, values |-> <<1>>]
    ELSE [names |-> <<"1", "2", "3", "4", "5">>, values |-> [k \in Buckets |-> counts[k]]]

Charts ==
    /\ pc = "charts"
    /\ charts' = [j \in 1..Len(question_cols) |->
                    [title |-> question_cols[j],
                     counts |-> dist_chart(df, input.cols, question_cols[j])]]
    /\ pie' = pie_chart(total_answers, dist_counts)
    /\ pc' = "render"
    /\ UNCHANGED <<failed, input, out, loadVars, aggVars, comments_html, colorVars, html>>

\* ----- HTML (pulse.py 272-643) -----
render ==
    [responses |-> n,
     overall |-> [value |-> overall_mean, color |-> overall_color],
     best |-> [value |-> best_mean, color |-> best_color, hint |-> best_q],
     worst |-> [value |-> worst_mean, color |-> worst_color, hint |-> worst_q],
     total_kpi |-> [num |-> total_answers, den |-> 5],
     table |-> summary,
     pie |-> pie,
     charts |-> charts,
     comments |-> comments_html]

Render ==
    /\ pc = "render"
    /\ html' = render
    /\ pc' = "write"
    /\ UNCHANGED <<failed, input, out, loadVars, aggVars, comments_html, colorVars, chartVars>>

\* ----- WRITE (pulse.py 645) -----
Write ==
    /\ pc = "write"
    /\ out' = [kind |-> "report", html |-> html]
    /\ pc' = "done"
    /\ UNCHANGED <<failed, input, loadVars, aggVars, comments_html, colorVars, chartVars, html>>

\* write_text raises: before the file was opened (it is left alone) or after it
\* was truncated
WriteFail ==
    /\ pc = "write"
    /\ out' \in {out, PartialFile}
    /\ pc' = "aborted"
    /\ failed' = "write"
    /\ UNCHANGED <<input, loadVars, aggVars, comments_html, colorVars, chartVars, html>>

Next ==
    \/ LoadFail
    \/ Load
    \/ AggregateFail
    \/ Aggregate
    \/ Comments
    \/ Colors
    \/ Charts
    \/ Render
    \/ Write
    \/ WriteFail

Spec == Init /\ [][Next]_vars

Past(stages) == pc \in stages
AfterLoad == Past({"aggregate", "comments", "colors", "charts", "render", "write", "done"})
AfterAggregate == Past({"comments", "colors", "charts", "render", "write", "done"})
AfterComments == Past({"colors", "charts", "render", "write", "done"})
AfterColors == Past({"charts", "render", "write", "done"})
AfterCharts == Past({"render", "write", "done"})

TypeOK == pc \in {"load", "aggregate", "comments", "colors", "charts", "render",
                  "write", "done", "aborted"}

\* ----- quantities the properties are stated in -----
QIdx == 1..Len(question_cols)
QCell(r, j) == df[r][Pos(input.cols, question_cols[j])]
\* the non-missing cells of question column j / of all question columns
NonMissing(j) == {r \in 1..Len(df) : QCell(r, j).k # "na"}
AllNonMissing == {<<r, j>> \in (1..Len(df)) \X QIdx : QCell(r, j).k # "na"}
QMean(j) == mean_of(Column(df, input.cols, question_cols[j]))
QIndexOf(q) == CHOOSE j \in QIdx : question_cols[j] = q
Defined == {j \in QIdx : ~IsNaN(QMean(j))}
BarSum(j) == SumSeq([k \in Buckets |-> charts[j].counts[k]])

\* C1: for every question column, the five bucket counts of its bar chart sum
\* to the number of non-missing values of the column.
C1_BarsSumToNonMissing ==
    AfterCharts => \A j \in QIdx : BarSum(j) = Cardinality(NonMissing(j))

C3_TiesFirstSeen ==
    (AfterAggregate /\ QIdx # {} /\ Defined = QIdx) =>
        /\ QIndexOf(best_q) =
              CHOOSE j \in QIdx :
                  /\ \A i \in QIdx : MeanGE(QMean(j), QMean(i))
                  /\ \A i \in 1..(j - 1) : ~MeanGE(QMean(i), QMean(j))
        /\ QIndexOf(worst_q) =
              CHOOSE j \in QIdx :
                  /\ \A i \in QIdx : MeanGE(QMean(i), QMean(j))
                  /\ \A i \in 1..(j - 1) : ~MeanGE(QMean(j), QMean(i))

\* C3 as amended: best and worst are question columns reported with their own
\* means; best has the highest of the defined means; worst has the lowest mean
\* when every question has a mean, and is a question without a mean otherwise.
\* Which of several tied questions is taken is not fixed.
C3_BestWorstByMean ==
    (AfterAggregate /\ QIdx # {}) =>
        /\ best_q \in Range(question_cols)
        /\ worst_q \in Range(question_cols)
        /\ best_mean = QMean(QIndexOf(best_q))
        /\ worst_mean = QMean(QIndexOf(worst_q))
        /\ Defined # {} => /\ QIndexOf(best_q) \in Defined
                           /\ \A j \in Defined : MeanGE(best_mean, QMean(j))
        /\ Defined = QIdx => \A j \in QIdx : MeanGE(QMean(j), worst_mean)
        /\ Defined # QIdx => IsNaN(worst_mean)

\* Q1 all 1s, Q2 all 5s
C3_Witness ==
    /\ AfterAggregate
    /\ n >= 2
    /\ question_cols = <<"Q1", "Q2">>
    /\ \A r \in 1..Len(df) : QCell(r, 1) = Num(Scale) /\ QCell(r, 2) = Num(5 * Scale)
    /\ best_q = "Q2" /\ MeanEQ(best_mean, [num |-> 5, den |-> 1])
    /\ worst_q = "Q1" /\ MeanEQ(worst_mean, [num |-> 1, den |-> 1])

\* the entries of the input's comment column that are neither missing nor
\* blank, trimmed, in row order
InputComments ==
    IF comment_col = NoneCol THEN <<>>
    ELSE LET col == Column(input.rows, input.cols, comment_col)
             kept == SelectSeq(col, LAMBDA x : x.k = "str" /\ strip(x.s) # <<>>)
         IN [i \in 1..Len(kept) |-> strip(kept[i].s)]

\* C4: the comments section is absent exactly when the comment column is
\* missing or has no non-blank entry; otherwise it holds one block per
\* non-blank entry, trimmed, in row order, and shows their number.
C4_CommentsSection ==
    AfterComments =>
        /\ comments_html.present <=> InputComments # <<>>
        /\ comments_html.present =>
              /\ comments_html.blocks = InputComments
              /\ comments_html.count = Len(comments_html.blocks)

\* the threshold rule read off a colour
Threshold(m, c) ==
    /\ c \in {GOOD, NEUTRAL, BAD}
    /\ c = GOOD <=> (~IsNaN(m) /\ m.num >= 4 * m.den)
    /\ c = BAD <=> (~IsNaN(m) /\ m.num < 3 * m.den)

\* C5: score_color maps a missing mean to neutral, a mean >= 4.0 to good, a
\* mean in [3.0, 4.0) to neutral and a mean < 3.0 to attention, and the
\* overall, best and worst colours are that function of their means.
C5_ScoreColor ==
    /\ score_color([num |-> 299, den |-> 100]) = BAD
    /\ score_color([num |-> 399, den |-> 100]) = NEUTRAL
    /\ AfterColors =>
          /\ Threshold(overall_mean, overall_color)
          /\ Threshold(best_mean, best_color)
          /\ Threshold(worst_mean, worst_color)

\* overall mean exactly 4.0 (good), worst mean exactly 3.0 (neutral)
C5_Witness ==
    /\ AfterColors
    /\ ~IsNaN(overall_mean) /\ overall_mean.num = 4 * overall_mean.den
    /\ overall_color = GOOD
    /\ ~IsNaN(worst_mean) /\ worst_mean.num = 3 * worst_mean.den
    /\ worst_color = NEUTRAL

PooledSum ==
    SumSeq([r \in 1..Len(df) |->
        SumSeq([j \in QIdx |-> IF QCell(r, j).k = "num" THEN QCell(r, j).v ELSE 0])])

\* C6: the overall mean is the sum of all non-missing question values over
\* their number, is missing when there are none, and is the same for every
\* order of the rows and of the question columns.
C6_OverallMeanPooled ==
    AfterAggregate =>
        /\ AllNonMissing = {} <=> IsNaN(overall_mean)
        /\ MeanEQ(overall_mean,
                  IF AllNonMissing = {} THEN NaNMean
                  ELSE [num |-> PooledSum, den |-> Scale * Cardinality(AllNonMissing)])
        /\ pc = "comments" =>
           \A pr \in Perms(Len(df)), pq \in Perms(Len(question_cols)) :
              overall_mean_of([r \in 1..Len(df) |-> df[pr[r]]], input.cols,
                              [j \in QIdx |-> question_cols[pq[j]]]) = overall_mean

\* columns with different numbers of missing values, where the pooled mean
\* differs from the mean of the per-question means
C6_Witness ==
    /\ AfterAggregate
    /\ \E i, j \in QIdx : Cardinality(NonMissing(i)) # Cardinality(NonMissing(j))
    /\ ~IsNaN(overall_mean)
    /\ ~MeanEQ(overall_mean, mean_of_means(df, input.cols, question_cols))

\* C7: the output file changes only in the step that runs write_text, which
\* is the last one, and an exception in any earlier stage ends the run with
\* the file as it was; nothing runs after the end of a run.
C7_WriteOnceLast ==
    [][/\ out' # out => (pc = "write" /\ pc' \in {"done", "aborted"})
       /\ (pc' = "aborted" /\ pc # "write") => (out' = OldFile /\ out = OldFile)
       /\ pc \notin {"done", "aborted"}]_vars

C7_Witness ==
    /\ pc = "aborted"
    /\ failed = "aggregate"
    /\ out = OldFile

\* C8: once the table was read, no stage before the write ends the run.
C8_SoftIssuesNeverAbort ==
    pc = "aborted" => failed \in {"load", "write"}

\* C9: for every bucket, the pooled count equals the sum of the questions'
\* bar-chart counts.
C9_PieAgreesWithBars ==
    AfterCharts =>
        \A k \in Buckets :
            dist_counts[k] = SumSeq([j \in QIdx |-> charts[j].counts[k]])

\* C10: the timestamp column and the comment column are different columns,
\* so every column has exactly one role.
C10_RolesDisjoint ==
    AfterLoad =>
        /\ timestamp_col # comment_col
        /\ \A i \in 1..Len(input.cols) :
              Cardinality({role \in {"timestamp", "comment", "question"} :
                  \/ role = "timestamp" /\ input.cols[i] = timestamp_col
                  \/ role = "comment" /\ input.cols[i] = comment_col
                  \/ role = "question" /\ input.cols[i] \in Range(question_cols)}) = 1

=============================================================================
